---- MODULE Spec2Model ----
(***************************************************************************)
(* EngGenius: the audio-fetch cache / in-flight deduplication layer and    *)
(* the single-slot playback controller of src/App.tsx, and the recorder    *)
(* of src/components/PracticeModal.tsx.                                    *)
(*                                                                         *)
(* JavaScript runs the handlers on one thread.  A handler runs to its next *)
(* await without interruption, and the continuations of everything that    *)
(* awaits a promise run, in the order they started to wait, as soon as the *)
(* promise settles and before any other event is handled.  Every action    *)
(* below is one such uninterrupted run: a click or change handler with the *)
(* effect it triggers, or the completion of a backend call or of a decode  *)
(* with the continuations it releases.                                     *)
(*                                                                         *)
(* The AudioContext is created by handleGenerate inside a click (line 118) *)
(* and is therefore running: playAudio's `await ctx.resume()` (line 155)   *)
(* is not taken.                                                           *)
(***************************************************************************)
EXTENDS Integers, Sequences, FiniteSets, TLC

\* ------------------------------------------------------------- bounds ----
MaxOps == 4         \* user operations (clicks, selections) in one behaviour
MaxPreloadOps == 2  \* generations and voice changes in one behaviour of PreloadSpec

\* ---------------------------------------------------------- constants ----
FullId == -1        \* the id 'full' of the Play Full button
NoId == -2          \* null in activeAudioId / loadingAudioId

Voices == {"Puck", "Charon"}             \* two of the five VoiceName values
DefaultVoice == "Puck"
Speeds == {10, 15}                       \* tenths: 1.0x and 1.5x of the 0.5..2.0 slider
DefaultSpeed == 10
Questions == {<<>>, <<" ">>, <<"q">>}    \* '', ' ', 'q'
EmptyText == ""                          \* falsy in `result?.english`
Texts == {"Hi."}                         \* the full answers the backend may return
SentenceLists == {<<>>, <<"Hi.">>}       \* the sentence breakdowns it may return

\* The answers the preload effect is examined on: english may be empty, and
\* there are zero, one or two sentences.
PreloadResults == [english : {EmptyText, "Hi."},
                   sentences : {<<>>, <<"Yo.">>, <<"Hi.", "Yo.">>}]

\* feedback: null, and the strings the modal can display.
NoFeedback == "null"
MicError == "mic-error"             \* PracticeModal.tsx line 67
AnalysisError == "analysis-error"   \* PracticeModal.tsx line 53
\* What checkPronunciation returns: the evaluation, its fallback for an empty
\* response, its message for a failed request (gemini.ts lines 111, 114).
Evaluations == {"evaluation", "no-evaluation", "check-error"}

\* GeneratedResponse: the full English text and the sentences' English texts
\* (the Vietnamese fields are only rendered).
Results == [english : Texts, sentences : SentenceLists]

VARIABLES
    result,          \* useState result: <<>> is null, <<r>> a GeneratedResponse
    isGenerating,    \* useState isGenerating; TRUE while generateAnswer is outstanding
    voice,           \* ttsConfig.voice
    speed,           \* ttsConfig.speed
    activeAudioId,   \* useState activeAudioId
    loadingAudioId,  \* useState loadingAudioId
    sourceNodeRef,   \* sourceNodeRef.current: index into sources, 0 is null
    sources,         \* the AudioBufferSourceNodes still observable: [id, buf, rate, st]
    audioCache,      \* audioCacheRef.current: CacheKey -> AudioBuffer
    pendingRequests, \* pendingRequestsRef.current: CacheKey -> promise
    promises,        \* every fetchPromise created: [key, st, abandoned]
    plays,           \* playAudio invocations suspended at `await fetchAudioBuffer`
    ops,             \* history: the number of user operations so far
    wasCached,       \* history: keys cached at the last clear and not fetched since
    served,          \* history: the fetchAudioBuffer calls of the last step,
                     \*          in call order: [key, via], via the return taken
    alerts,          \* history: the alert() dialogs the last step raised
    practiceModalOpen, \* useState practiceModalOpen
    practiceText,    \* useState practiceText (practiceType only picks the title)
    isRecording,     \* PracticeModal useState isRecording
    isAnalyzing,     \* PracticeModal useState isAnalyzing
    feedback,        \* PracticeModal useState feedback
    mediaRecorderRef, \* mediaRecorderRef.current: index into recorders, 0 is null
    recorders,       \* every MediaRecorder created, with its stream: [st, mic]
    gumPending       \* getUserMedia calls not yet settled

vars == <<result, isGenerating, voice, speed, activeAudioId, loadingAudioId,
          sourceNodeRef, sources, audioCache, pendingRequests, promises, plays,
          ops, wasCached, served, alerts, practiceModalOpen, practiceText,
          isRecording, isAnalyzing, feedback, mediaRecorderRef, recorders,
          gumPending>>

uiVars == <<result, isGenerating, voice, speed>>
playVars == <<activeAudioId, loadingAudioId, sourceNodeRef, sources, plays>>
fetchVars == <<audioCache, pendingRequests, promises>>
appVars == <<uiVars, playVars, fetchVars, wasCached>>
practiceVars == <<practiceModalOpen, practiceText>>
recorderVars == <<isRecording, isAnalyzing, feedback, mediaRecorderRef, recorders,
                  gumPending>>

\* ------------------------------------------------------------ helpers ----

\* String.prototype.trim on a sequence of characters.
RECURSIVE TrimLeft(_)
TrimLeft(s) == IF s # <<>> /\ Head(s) = " " THEN TrimLeft(Tail(s)) ELSE s

RECURSIVE TrimRight(_)
TrimRight(s) ==
    IF s # <<>> /\ s[Len(s)] = " " THEN TrimRight(SubSeq(s, 1, Len(s) - 1)) ELSE s

Trim(s) == TrimRight(TrimLeft(s))

\* `${voice}:${text}`: no VoiceName contains ':', so the string determines the pair.
CacheKey(v, text) == <<v, text>>

\* The empty Map.
EmptyMap == [k \in {} |-> 0]

MapSet(m, k, x) == [j \in DOMAIN m \cup {k} |-> IF j = k THEN x ELSE m[j]]
MapDelete(m, k) == [j \in DOMAIN m \ {k} |-> m[j]]

Settled(p) == promises[p].st \in {"ok", "fail"}

Range(s) == {s[i] : i \in DOMAIN s}

RemoveAt(s, i) == SubSeq(s, 1, i - 1) \o SubSeq(s, i + 1, Len(s))

\* --------------------------------------------------- fetchAudioBuffer ----

\* The three refs the fetcher reads and writes, as one value.
FetchState == [cache |-> audioCache, pending |-> pendingRequests, promises |-> promises]

\* A new fetchPromise starts in "synth": generateSpeech has been called (line 63).
NewPromise(cacheKey) == [key |-> cacheKey, st |-> "synth", abandoned |-> FALSE]

\* fetchAudioBuffer without its first step, the cache check.
NoCacheCheck_fetchAudioBuffer(text, v, fs) ==
    LET cacheKey == CacheKey(v, text) IN
    IF cacheKey \in DOMAIN fs.pending
    THEN [fs |-> fs, wait |-> fs.pending[cacheKey], via |-> "pending"]
    ELSE LET p == Len(fs.promises) + 1 IN
         [fs |-> [fs EXCEPT !.promises = Append(@, NewPromise(cacheKey)),
                            !.pending = MapSet(@, cacheKey, p)],
          wait |-> p, via |-> "network"]

\* One call fetchAudioBuffer(text, v) in the state fs, up to the return of its
\* promise.  An AudioBuffer is named by the fetchPromise that decoded it, so
\* `wait` is the promise whose value the caller receives: on a cache hit the
\* (fulfilled) one that decoded the cached buffer, else the pending or new one.
\* `via` names the return statement taken (lines 52, 57, 85).
fetchAudioBuffer(text, v, fs) ==
    LET cacheKey == CacheKey(v, text) IN
    IF cacheKey \in DOMAIN fs.cache
    THEN [fs |-> fs, wait |-> fs.cache[cacheKey], via |-> "cache"]
    ELSE IF cacheKey \in DOMAIN fs.pending
    THEN [fs |-> fs, wait |-> fs.pending[cacheKey], via |-> "pending"]
    ELSE LET p == Len(fs.promises) + 1 IN
         [fs |-> [fs EXCEPT !.promises = Append(@, NewPromise(cacheKey)),
                            !.pending = MapSet(@, cacheKey, p)],
          wait |-> p, via |-> "network"]

\* The texts the preload effect fetches, in call order.
PreloadTexts(r) ==
    IF r.english # EmptyText THEN <<r.english>> \o r.sentences ELSE <<>>

\* The preload effect: fetchAudioBuffer for every text, none awaited.
RECURSIVE PreloadAll(_, _, _)
PreloadAll(texts, v, acc) ==
    IF texts = <<>> THEN acc
    ELSE LET r == fetchAudioBuffer(Head(texts), v, acc.fs) IN
         PreloadAll(Tail(texts), v,
                    [fs |-> r.fs,
                     vias |-> Append(acc.vias, [key |-> CacheKey(v, Head(texts)),
                                                via |-> r.via])])

KeysOf(texts, v) == [i \in DOMAIN texts |-> CacheKey(v, texts[i])]

\* The effect of lines 89-105 for the result r (<<>> or <<response>>) and voice v.
Preload(r, v) ==
    LET texts == IF r = <<>> THEN <<>> ELSE PreloadTexts(r[1])
        done == PreloadAll(texts, v, [fs |-> FetchState, vias |-> <<>>])
    IN /\ promises' = done.fs.promises
       /\ pendingRequests' = done.fs.pending
       /\ audioCache' = done.fs.cache
       /\ wasCached' = wasCached \ Range(KeysOf(texts, v))
       /\ served' = done.vias
       /\ alerts' = <<>>

\* ----------------------------------------------------------- playback ----

\* The playback controller's state, as one value.
PlayState == [sources |-> sources, ref |-> sourceNodeRef,
              active |-> activeAudioId, loading |-> loadingAudioId]

SetPlayState(ps) ==
    /\ sources' = ps.sources
    /\ sourceNodeRef' = ps.ref
    /\ activeAudioId' = ps.active
    /\ loadingAudioId' = ps.loading

\* A node whose ended event has fired ("done") stays in sources only while
\* sourceNodeRef still refers to it; otherwise nothing can observe it any more.
Unreferenced(srcs, ref) ==
    IF ref # 0 /\ srcs[ref].st = "done" THEN RemoveAt(srcs, ref) ELSE srcs

\* sourceNodeRef.current.stop(): a sounding node falls silent with its ended
\* event pending.
StopNode(srcs, ref) ==
    IF ref # 0 /\ srcs[ref].st = "playing"
    THEN [srcs EXCEPT ![ref].st = "stopped"]
    ELSE Unreferenced(srcs, ref)

stopAudio(ps) ==
    [ps EXCEPT !.sources = StopNode(ps.sources, ps.ref), !.ref = 0, !.active = NoId]

\* playAudio after `await fetchAudioBuffer` has produced the buffer buf for the
\* invocation pl: create and start the source, sourceNodeRef.current = source,
\* setActiveAudioId(id), finally setLoadingAudioId(null).
StartSource(ps, pl, buf) ==
    LET kept == Unreferenced(ps.sources, ps.ref) IN
    [sources |-> Append(kept, [id |-> pl.id, buf |-> buf, rate |-> pl.speed,
                               st |-> "playing"]),
     ref |-> Len(kept) + 1,
     active |-> pl.id,
     loading |-> NoId]

\* playAudio after `await fetchAudioBuffer` has thrown: alert, finally
\* setLoadingAudioId(null).
RejectPlay(ps) == [ps EXCEPT !.loading = NoId]

\* The continuations of the invocations `waiting`, in order, once the promise
\* they all await is fulfilled with buf / is rejected.
RECURSIVE ResumeAll(_, _, _)
ResumeAll(ps, waiting, buf) ==
    IF waiting = <<>> THEN ps
    ELSE ResumeAll(StartSource(ps, Head(waiting), buf), Tail(waiting), buf)

RECURSIVE RejectAll(_, _)
RejectAll(ps, waiting) ==
    IF waiting = <<>> THEN ps
    ELSE RejectAll(RejectPlay(ps), Tail(waiting))

Awaiting(p) == SelectSeq(plays, LAMBDA pl : pl.wait = p)

\* The alert() of playAudio's catch block, one per rejected invocation, and the
\* alert() of handleGenerate's catch block.
PlayAlerts(waiting) == [i \in DOMAIN waiting |-> [kind |-> "play", id |-> waiting[i].id]]
GenerateAlert == <<[kind |-> "generate", id |-> NoId]>>
NotAwaiting(p) == SelectSeq(plays, LAMBDA pl : pl.wait # p)

\* ------------------------------------------------------------ actions ----

Init ==
    /\ result = <<>>
    /\ isGenerating = FALSE
    /\ voice = DefaultVoice
    /\ speed = DefaultSpeed
    /\ activeAudioId = NoId
    /\ loadingAudioId = NoId
    /\ sourceNodeRef = 0
    /\ sources = <<>>
    /\ audioCache = EmptyMap
    /\ pendingRequests = EmptyMap
    /\ promises = <<>>
    /\ plays = <<>>
    /\ ops = 0
    /\ wasCached = {}
    /\ served = <<>>
    /\ alerts = <<>>
    /\ practiceModalOpen = FALSE
    /\ practiceText = ""
    /\ isRecording = FALSE
    /\ isAnalyzing = FALSE
    /\ feedback = NoFeedback
    /\ mediaRecorderRef = 0
    /\ recorders = <<>>
    /\ gumPending = 0

\* handleGenerate that leaves the audio cache as it is.
KeepCache_handleGenerate(q) ==
    /\ ~isGenerating
    /\ Trim(q) # <<>>
    /\ isGenerating' = TRUE
    /\ result' = <<>>
    /\ SetPlayState(stopAudio(PlayState))
    /\ audioCache' = audioCache
    /\ pendingRequests' = EmptyMap
    /\ promises' = [p \in DOMAIN promises |->
                      [promises[p] EXCEPT !.abandoned = @ \/ ~Settled(p)]]
    /\ wasCached' = DOMAIN audioCache
    /\ served' = <<>>
    /\ alerts' = <<>>
    /\ UNCHANGED <<voice, speed, plays>>

\* handleGenerate that leaves the in-flight tracker as it is.
KeepTracker_handleGenerate(q) ==
    /\ ~isGenerating
    /\ Trim(q) # <<>>
    /\ isGenerating' = TRUE
    /\ result' = <<>>
    /\ SetPlayState(stopAudio(PlayState))
    /\ audioCache' = EmptyMap
    /\ pendingRequests' = pendingRequests
    /\ promises' = promises
    /\ wasCached' = DOMAIN audioCache
    /\ served' = <<>>
    /\ alerts' = <<>>
    /\ UNCHANGED <<voice, speed, plays>>

\* handleGenerate, with q in the textarea, up to `await generateAnswer`; the
\* preload effect then sees result = null and does nothing.  The button is
\* disabled while isGenerating.  The fetches outstanding at the clear go on,
\* no longer tracked ("abandoned").
handleGenerate(q) ==
    /\ ~isGenerating
    /\ Trim(q) # <<>>
    /\ isGenerating' = TRUE
    /\ result' = <<>>
    /\ SetPlayState(stopAudio(PlayState))
    /\ audioCache' = EmptyMap
    /\ pendingRequests' = EmptyMap
    /\ promises' = [p \in DOMAIN promises |->
                      [promises[p] EXCEPT !.abandoned = @ \/ ~Settled(p)]]
    /\ wasCached' = DOMAIN audioCache
    /\ served' = <<>>
    /\ alerts' = <<>>
    /\ UNCHANGED <<voice, speed, plays>>

\* generateAnswer resolves with r: setResult(r), then the preload effect.
GenerateDone(r) ==
    /\ isGenerating
    /\ result' = <<r>>
    /\ isGenerating' = FALSE
    /\ Preload(<<r>>, voice)
    /\ UNCHANGED <<voice, speed, playVars>>

\* generateAnswer rejects: alert, result stays null.
GenerateFail ==
    /\ isGenerating
    /\ isGenerating' = FALSE
    /\ served' = <<>>
    /\ alerts' = GenerateAlert
    /\ UNCHANGED <<result, voice, speed, playVars, fetchVars, wasCached>>

\* The voice select's onChange, then the preload effect under the new voice.
SetVoice(v) ==
    /\ result # <<>>
    /\ v # voice
    /\ voice' = v
    /\ Preload(result, v)
    /\ UNCHANGED <<result, isGenerating, speed, playVars>>

\* SetSpeed that stops the current source and starts the item again at the new
\* rate.
Restarting_SetSpeed(s) ==
    /\ result # <<>>
    /\ s # speed
    /\ speed' = s
    /\ IF sourceNodeRef # 0 /\ sources[sourceNodeRef].st = "playing"
       THEN SetPlayState(StartSource(stopAudio(PlayState),
                                [id |-> sources[sourceNodeRef].id, wait |-> 0, speed |-> s],
                                sources[sourceNodeRef].buf))
       ELSE UNCHANGED <<sources, sourceNodeRef, activeAudioId, loadingAudioId>>
    /\ served' = <<>>
    /\ alerts' = <<>>
    /\ UNCHANGED <<result, isGenerating, voice, plays, fetchVars, wasCached>>

\* The speed slider's onChange.
SetSpeed(s) ==
    /\ result # <<>>
    /\ s # speed
    /\ speed' = s
    /\ sources' = IF sourceNodeRef # 0
                  THEN [sources EXCEPT ![sourceNodeRef].rate = s]
                  ELSE sources
    /\ served' = <<>>
    /\ alerts' = <<>>
    /\ UNCHANGED <<result, isGenerating, voice, activeAudioId, loadingAudioId,
                   sourceNodeRef, plays, fetchVars, wasCached>>

\* ------------------------------------------------------------ playAudio ----

\* The ids of the play buttons rendered for the response r.
ButtonIds(r) == {FullId} \cup {i - 1 : i \in DOMAIN r.sentences}
AllButtonIds == UNION {ButtonIds(r) : r \in Results}

\* The text the button id plays.
ButtonText(r, id) == IF id = FullId THEN r.english ELSE r.sentences[id + 1]

\* disabled={loadingAudioId !== null && loadingAudioId !== id}
ButtonEnabled(id) == loadingAudioId \in {NoId, id}

\* playAudio(text, id) with activeAudioId === id: toggle off, return.
PlayToggleOff(id) ==
    /\ result # <<>>
    /\ id \in ButtonIds(result[1])
    /\ ButtonEnabled(id)
    /\ activeAudioId = id
    /\ SetPlayState(stopAudio(PlayState))
    /\ served' = <<>>
    /\ alerts' = <<>>
    /\ UNCHANGED <<uiVars, plays, fetchVars, wasCached>>

\* playAudio(text, id) with activeAudioId !== id: stopAudio, setLoadingAudioId,
\* fetchAudioBuffer.  On a cache hit the awaited promise is already fulfilled
\* and the invocation runs on to its end; otherwise it is suspended.  The
\* closure keeps the ttsConfig of the render the click was made in.
PlayStart(id) ==
    /\ result # <<>>
    /\ id \in ButtonIds(result[1])
    /\ ButtonEnabled(id)
    /\ activeAudioId # id
    /\ LET text == ButtonText(result[1], id)
           r == fetchAudioBuffer(text, voice, FetchState)
           pl == [id |-> id, wait |-> r.wait, speed |-> speed]
           ps == [stopAudio(PlayState) EXCEPT !.loading = id]
       IN /\ promises' = r.fs.promises
          /\ pendingRequests' = r.fs.pending
          /\ audioCache' = r.fs.cache
          /\ wasCached' = wasCached \ {CacheKey(voice, text)}
          /\ served' = <<[key |-> CacheKey(voice, text), via |-> r.via]>>
          /\ alerts' = <<>>
          /\ IF r.via = "cache"
             THEN SetPlayState(StartSource(ps, pl, r.wait)) /\ plays' = plays
             ELSE SetPlayState(ps) /\ plays' = Append(plays, pl)
    /\ UNCHANGED <<uiVars>>

\* source.onended: the ended event of node n, after its natural end (the node is
\* sounding until then) or after stop().
OnEnded(n) ==
    /\ n \in DOMAIN sources
    /\ sources[n].st \in {"playing", "stopped"}
    /\ sources' = IF n = sourceNodeRef
                  THEN [sources EXCEPT ![n].st = "done"]
                  ELSE RemoveAt(sources, n)
    /\ sourceNodeRef' = IF sourceNodeRef > n THEN sourceNodeRef - 1 ELSE sourceNodeRef
    /\ activeAudioId' = NoId
    /\ served' = <<>>
    /\ alerts' = <<>>
    /\ UNCHANGED <<uiVars, loadingAudioId, plays, fetchVars, wasCached>>

\* ------------------------------------------------ fetchPromise's body ----

\* generateSpeech resolved; decodeAudioData is awaited next.
SynthDone(p) ==
    /\ p \in DOMAIN promises
    /\ promises[p].st = "synth"
    /\ promises' = [promises EXCEPT ![p].st = "decode"]
    /\ served' = <<>>
    /\ alerts' = <<>>
    /\ UNCHANGED <<uiVars, playVars, audioCache, pendingRequests, wasCached>>

\* DecodeDone whose finally block does not delete the tracker entry.
KeepPending_DecodeDone(p) ==
    /\ p \in DOMAIN promises
    /\ promises[p].st = "decode"
    /\ promises' = [promises EXCEPT ![p].st = "ok"]
    /\ audioCache' = MapSet(audioCache, promises[p].key, p)
    /\ SetPlayState(ResumeAll(PlayState, Awaiting(p), p))
    /\ plays' = NotAwaiting(p)
    /\ served' = <<>>
    /\ alerts' = <<>>
    /\ UNCHANGED <<uiVars, pendingRequests, wasCached>>

\* decodeAudioData resolved: cache.set, return; finally pending.delete; then
\* the playAudio invocations awaiting the promise go on.
DecodeDone(p) ==
    /\ p \in DOMAIN promises
    /\ promises[p].st = "decode"
    /\ promises' = [promises EXCEPT ![p].st = "ok"]
    /\ audioCache' = MapSet(audioCache, promises[p].key, p)
    /\ pendingRequests' = MapDelete(pendingRequests, promises[p].key)
    /\ SetPlayState(ResumeAll(PlayState, Awaiting(p), p))
    /\ plays' = NotAwaiting(p)
    /\ served' = <<>>
    /\ alerts' = <<>>
    /\ UNCHANGED <<uiVars, wasCached>>

\* FetchFail whose failure is also reported when no playAudio invocation awaits
\* the promise.
Alerting_FetchFail(p) ==
    /\ p \in DOMAIN promises
    /\ promises[p].st \in {"synth", "decode"}
    /\ promises' = [promises EXCEPT ![p].st = "fail"]
    /\ pendingRequests' = MapDelete(pendingRequests, promises[p].key)
    /\ SetPlayState(RejectAll(PlayState, Awaiting(p)))
    /\ plays' = NotAwaiting(p)
    /\ served' = <<>>
    /\ alerts' = IF Awaiting(p) = <<>>
                 THEN <<[kind |-> "play", id |-> NoId]>>
                 ELSE PlayAlerts(Awaiting(p))
    /\ UNCHANGED <<uiVars, audioCache, wasCached>>

\* FetchFail that issues the synthesize call again for the key that failed.
Retrying_FetchFail(p) ==
    /\ p \in DOMAIN promises
    /\ promises[p].st \in {"synth", "decode"}
    /\ promises' = Append([promises EXCEPT ![p].st = "fail"], NewPromise(promises[p].key))
    /\ pendingRequests' = MapSet(pendingRequests, promises[p].key, Len(promises) + 1)
    /\ SetPlayState(RejectAll(PlayState, Awaiting(p)))
    /\ plays' = NotAwaiting(p)
    /\ served' = <<>>
    /\ alerts' = PlayAlerts(Awaiting(p))
    /\ UNCHANGED <<uiVars, audioCache, wasCached>>

\* FetchFail whose finally block does not delete the tracker entry.
KeepPending_FetchFail(p) ==
    /\ p \in DOMAIN promises
    /\ promises[p].st \in {"synth", "decode"}
    /\ promises' = [promises EXCEPT ![p].st = "fail"]
    /\ SetPlayState(RejectAll(PlayState, Awaiting(p)))
    /\ plays' = NotAwaiting(p)
    /\ served' = <<>>
    /\ alerts' = PlayAlerts(Awaiting(p))
    /\ UNCHANGED <<uiVars, audioCache, pendingRequests, wasCached>>

\* generateSpeech, decodeBase64 or decodeAudioData threw: finally
\* pending.delete; then the playAudio invocations awaiting the promise fail.
FetchFail(p) ==
    /\ p \in DOMAIN promises
    /\ promises[p].st \in {"synth", "decode"}
    /\ promises' = [promises EXCEPT ![p].st = "fail"]
    /\ pendingRequests' = MapDelete(pendingRequests, promises[p].key)
    /\ SetPlayState(RejectAll(PlayState, Awaiting(p)))
    /\ plays' = NotAwaiting(p)
    /\ served' = <<>>
    /\ alerts' = PlayAlerts(Awaiting(p))
    /\ UNCHANGED <<uiVars, audioCache, wasCached>>

\* ------------------------------------------------------ openPractice ----

\* The textarea's content as the string openPractice receives.
QuestionText(q) ==
    CASE q = <<>> -> ""
      [] q = <<" ">> -> " "
      [] q = <<"q">> -> "q"

\* The texts of the practise buttons rendered: the question's while the
\* textarea is not empty, the answer's and every sentence's while there is a
\* result.
PracticeTargets ==
    {QuestionText(q) : q \in Questions \ {<<>>}}
        \cup (IF result = <<>> THEN {}
              ELSE {result[1].english} \cup Range(result[1].sentences))

\* openPractice(type, text).
openPractice(text) ==
    /\ text \in PracticeTargets
    /\ practiceText' = text
    /\ practiceModalOpen' = TRUE
    /\ served' = <<>>
    /\ alerts' = <<>>
    /\ UNCHANGED <<appVars, recorderVars>>

\* onClose of the modal (either of its two close buttons).
closePractice ==
    /\ practiceModalOpen
    /\ practiceModalOpen' = FALSE
    /\ served' = <<>>
    /\ alerts' = <<>>
    /\ UNCHANGED <<appVars, practiceText, recorderVars>>

\* ------------------------------------------------------ PracticeModal ----

\* The component stays mounted while the modal is closed (`if (!isOpen) return
\* null` comes after its hooks): its state, its recorders and its suspended
\* handlers live on.  The record button is rendered while the modal is open and
\* isAnalyzing is false; it starts or stops according to isRecording.
RecordButtonShown == practiceModalOpen /\ ~isAnalyzing

\* startRecording up to `await getUserMedia`.
startRecording ==
    /\ RecordButtonShown
    /\ ~isRecording
    /\ gumPending' = gumPending + 1
    /\ served' = <<>>
    /\ alerts' = <<>>
    /\ UNCHANGED <<appVars, practiceVars, isRecording, isAnalyzing, feedback,
                   mediaRecorderRef, recorders>>

\* getUserMedia resolved: new MediaRecorder(stream), start, setIsRecording(true),
\* setFeedback(null).
GetUserMediaOk ==
    /\ gumPending > 0
    /\ gumPending' = gumPending - 1
    /\ recorders' = Append(recorders, [st |-> "recording", mic |-> TRUE])
    /\ mediaRecorderRef' = Len(recorders) + 1
    /\ isRecording' = TRUE
    /\ feedback' = NoFeedback
    /\ served' = <<>>
    /\ alerts' = <<>>
    /\ UNCHANGED <<appVars, practiceVars, isAnalyzing>>

\* GetUserMediaFail that also sets the recording flag.
Recording_GetUserMediaFail ==
    /\ gumPending > 0
    /\ gumPending' = gumPending - 1
    /\ feedback' = MicError
    /\ isRecording' = TRUE
    /\ served' = <<>>
    /\ alerts' = <<>>
    /\ UNCHANGED <<appVars, practiceVars, isAnalyzing, mediaRecorderRef, recorders>>

\* getUserMedia rejected (permission denied, no input device): setFeedback.
GetUserMediaFail ==
    /\ gumPending > 0
    /\ gumPending' = gumPending - 1
    /\ feedback' = MicError
    /\ served' = <<>>
    /\ alerts' = <<>>
    /\ UNCHANGED <<appVars, practiceVars, isRecording, isAnalyzing,
                   mediaRecorderRef, recorders>>

\* stopRecording: mediaRecorderRef.current.stop(), setIsRecording(false).  stop()
\* on a recorder that is not recording throws before the flag is cleared.
stopRecording ==
    /\ RecordButtonShown
    /\ isRecording
    /\ IF mediaRecorderRef # 0 /\ recorders[mediaRecorderRef].st = "recording"
       THEN /\ recorders' = [recorders EXCEPT ![mediaRecorderRef].st = "stopping"]
            /\ isRecording' = FALSE
       ELSE UNCHANGED <<recorders, isRecording>>
    /\ served' = <<>>
    /\ alerts' = <<>>
    /\ UNCHANGED <<appVars, practiceVars, isAnalyzing, feedback, mediaRecorderRef,
                   gumPending>>

\* mediaRecorder.onstop up to its awaits: setIsAnalyzing(true).
OnStop(r) ==
    /\ r \in DOMAIN recorders
    /\ recorders[r].st = "stopping"
    /\ recorders' = [recorders EXCEPT ![r].st = "analyzing"]
    /\ isAnalyzing' = TRUE
    /\ served' = <<>>
    /\ alerts' = <<>>
    /\ UNCHANGED <<appVars, practiceVars, isRecording, feedback, mediaRecorderRef,
                   gumPending>>

\* blobToBase64 and checkPronunciation resolved with the text ev:
\* setFeedback(ev), finally setIsAnalyzing(false), then the tracks are stopped.
AnalysisOk(r, ev) ==
    /\ r \in DOMAIN recorders
    /\ recorders[r].st = "analyzing"
    /\ recorders' = [recorders EXCEPT ![r] = [st |-> "inactive", mic |-> FALSE]]
    /\ feedback' = ev
    /\ isAnalyzing' = FALSE
    /\ served' = <<>>
    /\ alerts' = <<>>
    /\ UNCHANGED <<appVars, practiceVars, isRecording, mediaRecorderRef, gumPending>>

\* AnalysisFail whose error path returns before the tracks are stopped.
Holding_AnalysisFail(r) ==
    /\ r \in DOMAIN recorders
    /\ recorders[r].st = "analyzing"
    /\ recorders' = [recorders EXCEPT ![r].st = "inactive"]
    /\ feedback' = AnalysisError
    /\ isAnalyzing' = FALSE
    /\ served' = <<>>
    /\ alerts' = <<>>
    /\ UNCHANGED <<appVars, practiceVars, isRecording, mediaRecorderRef, gumPending>>

\* blobToBase64 rejected: setFeedback of the catch block, finally
\* setIsAnalyzing(false), then the tracks are stopped.
AnalysisFail(r) ==
    /\ r \in DOMAIN recorders
    /\ recorders[r].st = "analyzing"
    /\ recorders' = [recorders EXCEPT ![r] = [st |-> "inactive", mic |-> FALSE]]
    /\ feedback' = AnalysisError
    /\ isAnalyzing' = FALSE
    /\ served' = <<>>
    /\ alerts' = <<>>
    /\ UNCHANGED <<appVars, practiceVars, isRecording, mediaRecorderRef, gumPending>>

\* ------------------------------------------------------ specification ----

\* A step taken by the user, within the budget of MaxOps operations.
UserOp == ops < MaxOps /\ ops' = ops + 1

\* A step taken by the backend or the audio engine.
SystemStep == ops' = ops

\* A step of the App component's audio layer: the modal's recorder is at rest.
AppStep == UNCHANGED <<practiceVars, recorderVars>>

\* The App component: generation, preload, playback, and opening and closing
\* the practice modal.
Next ==
    \/ \E q \in Questions : handleGenerate(q) /\ UserOp /\ AppStep
    \/ \E r \in Results : GenerateDone(r) /\ SystemStep /\ AppStep
    \/ GenerateFail /\ SystemStep /\ AppStep
    \/ \E v \in Voices : SetVoice(v) /\ UserOp /\ AppStep
    \/ \E s \in Speeds : SetSpeed(s) /\ UserOp /\ AppStep
    \/ \E id \in AllButtonIds : PlayToggleOff(id) /\ UserOp /\ AppStep
    \/ \E id \in AllButtonIds : PlayStart(id) /\ UserOp /\ AppStep
    \/ \E n \in DOMAIN sources : OnEnded(n) /\ SystemStep /\ AppStep
    \/ \E p \in DOMAIN promises : SynthDone(p) /\ SystemStep /\ AppStep
    \/ \E p \in DOMAIN promises : DecodeDone(p) /\ SystemStep /\ AppStep
    \/ \E p \in DOMAIN promises : FetchFail(p) /\ SystemStep /\ AppStep
    \/ \E t \in PracticeTargets : openPractice(t) /\ UserOp
    \/ closePractice /\ UserOp

Spec == Init /\ [][Next]_vars

\* Generation, preload and the start of playback on the answers of
\* PreloadResults: the preload effect runs after every new result and after
\* every change of voice.
PreloadOp == ops < MaxPreloadOps /\ ops' = ops + 1
PreloadButtonIds == UNION {ButtonIds(r) : r \in PreloadResults}

PreloadNext ==
    \/ \E q \in Questions : handleGenerate(q) /\ PreloadOp /\ AppStep
    \/ \E r \in PreloadResults : GenerateDone(r) /\ SystemStep /\ AppStep
    \/ GenerateFail /\ SystemStep /\ AppStep
    \/ \E v \in Voices : SetVoice(v) /\ PreloadOp /\ AppStep
    \/ \E id \in PreloadButtonIds : PlayStart(id) /\ PreloadOp /\ AppStep
    \/ \E n \in DOMAIN sources : OnEnded(n) /\ SystemStep /\ AppStep
    \/ \E p \in DOMAIN promises : SynthDone(p) /\ SystemStep /\ AppStep
    \/ \E p \in DOMAIN promises : DecodeDone(p) /\ SystemStep /\ AppStep
    \/ \E p \in DOMAIN promises : FetchFail(p) /\ SystemStep /\ AppStep

PreloadSpec == Init /\ [][PreloadNext]_vars

\* The PracticeModal component, opened on the question and closed by the App,
\* which is otherwise at rest: the two components share only practiceModalOpen
\* and practiceText.
RecorderStep ==
    \/ GetUserMediaOk
    \/ GetUserMediaFail
    \/ \E r \in DOMAIN recorders : OnStop(r)
    \/ \E r \in DOMAIN recorders : \E ev \in Evaluations : AnalysisOk(r, ev)
    \/ \E r \in DOMAIN recorders : AnalysisFail(r)

PracticeNext ==
    \/ \E t \in PracticeTargets : openPractice(t) /\ UserOp
    \/ closePractice /\ UserOp
    \/ startRecording /\ UserOp
    \/ stopRecording /\ UserOp
    \/ RecorderStep /\ SystemStep

PracticeSpec == Init /\ [][PracticeNext]_vars

\* The browser settles every getUserMedia call and delivers every stop event,
\* and the evaluation request eventually completes.
PracticeLive == PracticeSpec /\ WF_vars(RecorderStep /\ SystemStep)

\* ------------------------------------------------- vocabulary of claims ----

AllTexts == Texts \cup UNION {Range(l) : l \in SentenceLists}
Keys == {CacheKey(v, t) : v \in Voices, t \in AllTexts}

\* This step is a run of playAudio(text, id), whichever branch it takes.
PlayClicked(id) == PlayToggleOff(id) \/ PlayStart(id)

\* This step calls fetchAudioBuffer with the key k: a play request for k, or a
\* preload (new answer, or new voice) that covers k.
PlayFetches(k) ==
    \E id \in AllButtonIds :
        /\ PlayStart(id)
        /\ k = CacheKey(voice, ButtonText(result[1], id))

PreloadFetches(k) ==
    \/ \E r \in Results :
        /\ GenerateDone(r)
        /\ k \in Range(KeysOf(PreloadTexts(r), voice))
    \/ \E v \in Voices :
        /\ SetVoice(v)
        /\ k \in Range(KeysOf(PreloadTexts(result[1]), v))

FetchCalled(k) == PlayFetches(k) \/ PreloadFetches(k)

\* This step issues a synthesize call for k (creates a fetchPromise for k).
NetworkCall(k) ==
    \E p \in DOMAIN promises' \ DOMAIN promises : promises'[p].key = k

\* The playAudio invocations this step suspends.
NewPlays == {plays'[i] : i \in DOMAIN plays' \ DOMAIN plays}

\* The fetches for k that are outstanding and were issued since the last clear.
Outstanding(k) ==
    {p \in DOMAIN promises :
        promises[p].key = k /\ ~Settled(p) /\ ~promises[p].abandoned}

Sounding == {n \in DOMAIN sources : sources[n].st = "playing"}

\* ---------------------------------------------------------------- C1 ----
\* C1: a fetch for a key whose earlier fetch is still outstanding (key not
\* cached, no new generation since that earlier call) issues no synthesize call
\* and hands its caller that same outstanding operation.
C1_SecondCallJoinsFirst ==
    [][\A k \in Keys :
          (FetchCalled(k) /\ k \notin DOMAIN audioCache /\ Outstanding(k) # {})
          => /\ ~NetworkCall(k)
             /\ PlayFetches(k) => \A pl \in NewPlays : pl.wait \in Outstanding(k)]_vars

\* ---------------------------------------------------------------- C2 ----
\* C2: in every reachable state at most one synthesize call is outstanding for
\* any key.
C2_OneSynthesizePerKey ==
    \A p, q \in DOMAIN promises :
        (promises[p].key = promises[q].key
            /\ promises[p].st = "synth" /\ promises[q].st = "synth") => p = q

\* ---------------------------------------------------------------- C3 ----
\* C3: in every reachable state at most one source started by playAudio is
\* sounding.
C3_OneSourceSounding == Cardinality(Sounding) <= 1

\* ---------------------------------------------------------------- C4 ----
\* C4: a fetch for a key that is in the cache (a fetch for it has succeeded and
\* the cache has not been cleared since) issues no synthesize call, creates no
\* tracker entry and hands its caller the cached buffer: a play request starts
\* its source with that buffer at once.
C4_CacheHitNoNetwork ==
    [][\A k \in Keys :
          (FetchCalled(k) /\ k \in DOMAIN audioCache)
          => /\ ~NetworkCall(k)
             /\ k \notin DOMAIN pendingRequests'
             /\ PlayFetches(k) => /\ plays' = plays
                                  /\ sourceNodeRef' # 0
                                  /\ sources'[sourceNodeRef'].st = "playing"
                                  /\ sources'[sourceNodeRef'].buf = audioCache[k]]_vars

\* A play request has just been answered from the cache and its source started.
C4_Witness ==
    /\ Len(served) = 1
    /\ served[1].via = "cache"
    /\ sourceNodeRef # 0
    /\ sources[sourceNodeRef].st = "playing"

\* ---------------------------------------------------------------- C5 ----
\* C5: the step in which a fetch completes, fulfilled or rejected, leaves no
\* tracker entry for its key, and no tracker entry ever refers to a completed
\* fetch.
C5_TrackerDropsCompleted ==
    [][/\ \A p \in DOMAIN promises :
            (~Settled(p) /\ promises'[p].st \in {"ok", "fail"})
            => promises[p].key \notin DOMAIN pendingRequests'
       /\ \A k \in DOMAIN pendingRequests' :
            promises'[pendingRequests'[k]].st \in {"synth", "decode"}]_vars

\* One fetch has been fulfilled and one rejected; the tracker holds neither key.
C5_Witness ==
    \E p, q \in DOMAIN promises :
        /\ promises[p].st = "ok"
        /\ promises[q].st = "fail"
        /\ promises[p].key \notin DOMAIN pendingRequests
        /\ promises[q].key \notin DOMAIN pendingRequests

\* ---------------------------------------------------------------- C6 ----
\* A buffer in the cache that was decoded by a fetch abandoned at a clear: the
\* late arrival of section 5 of the specification.
LateArrival(k) == k \in DOMAIN audioCache /\ promises[audioCache[k]].abandoned

C7_CacheTrackerDisjoint ==
    /\ [](DOMAIN audioCache \cap DOMAIN pendingRequests = {})
    /\ [][\A k \in DOMAIN pendingRequests' \ DOMAIN pendingRequests :
             k \notin DOMAIN audioCache]_vars

\* A fetch has succeeded and left the tracker for the cache (where its buffer
\* still is) while a fetch for another key is tracked.
C7_Witness ==
    \E k \in DOMAIN audioCache :
        /\ promises[audioCache[k]].st = "ok"
        /\ k \notin DOMAIN pendingRequests
        /\ pendingRequests # EmptyMap

\* ---------------------------------------------------------------- C8 ----
\* C8: no step replaces the buffer cached under a key by another buffer, and a
\* cached key disappears only when the whole cache is cleared.
C8_CacheEntryImmutable ==
    [][\A k \in DOMAIN audioCache :
          IF k \in DOMAIN audioCache'
          THEN audioCache'[k] = audioCache[k]
          ELSE audioCache' = EmptyMap]_vars

\* ---------------------------------------------------------------- C9 ----
\* C9: playAudio(text, id) with activeAudioId = id stops the playback of id (no
\* source of id is sounding afterwards), sets activeAudioId to none and fetches
\* nothing: loadingAudioId, the cache, the tracker, the fetches and the
\* suspended play requests are unchanged.
C9_ToggleOffStopsPlayback ==
    [][\A id \in AllButtonIds :
          (PlayClicked(id) /\ activeAudioId = id)
          => /\ \A n \in DOMAIN sources' :
                    sources'[n].id = id => sources'[n].st # "playing"
             /\ sourceNodeRef' = 0
             /\ activeAudioId' = NoId
             /\ loadingAudioId' = loadingAudioId
             /\ audioCache' = audioCache
             /\ pendingRequests' = pendingRequests
             /\ promises' = promises
             /\ plays' = plays]_vars

\* --------------------------------------------------------------- C10 ----
\* C10: whenever a step changes activeAudioId from one id to another, the item
\* that was active has been stopped: no source of the previous id is sounding
\* once the new id is set.
C10_PreviousStoppedFirst ==
    [][(activeAudioId # NoId /\ activeAudioId' \notin {NoId, activeAudioId})
          => \A n \in DOMAIN sources' :
                sources'[n].st = "playing" => sources'[n].id # activeAudioId]_vars

C12_OpenPracticeStopsPlayback ==
    [][\A t \in AllTexts \cup {QuestionText(q) : q \in Questions} :
          openPractice(t)
          => /\ activeAudioId' = NoId
             /\ \A n \in DOMAIN sources' : sources'[n].st # "playing"]_vars

\* --------------------------------------------------------------- C13 ----
\* C13: whenever the recorder is analyzing, it is eventually idle (isRecording
\* false, isAnalyzing false) with a feedback text set.
C13_AnalyzingLeadsToIdle ==
    isAnalyzing ~> (~isRecording /\ ~isAnalyzing /\ feedback # NoFeedback)

\* --------------------------------------------------------------- C14 ----
\* The capture resources held: the recorders whose stream's tracks are live.
MicHeld == {r \in DOMAIN recorders : recorders[r].mic}

\* C14: the step in which getUserMedia fails changes neither isRecording nor
\* isAnalyzing, creates no recorder and acquires no capture resource, and
\* stores the microphone error as feedback; from idle the recorder stays idle.
C14_CaptureFailureStaysIdle ==
    [][GetUserMediaFail
          => /\ isRecording' = isRecording
             /\ isAnalyzing' = isAnalyzing
             /\ recorders' = recorders
             /\ mediaRecorderRef' = mediaRecorderRef
             /\ feedback' = MicError
             /\ (~isRecording /\ ~isAnalyzing /\ MicHeld = {})
                    => (~isRecording' /\ ~isAnalyzing'
                            /\ {r \in DOMAIN recorders' : recorders'[r].mic} = {})]_vars

\* The one start attempt has failed: idle, no recorder was ever created, the
\* microphone error is displayed.
C14_Witness ==
    /\ feedback = MicError
    /\ ~isRecording
    /\ ~isAnalyzing
    /\ recorders = <<>>
    /\ gumPending = 0

\* --------------------------------------------------------------- C15 ----
\* C15: the step in which the answer r becomes available calls
\* fetchAudioBuffer exactly 1 + N times, for the full text and then for each
\* of the N sentences, under the current voice, and completes no fetch: every
\* fetch it starts is still outstanding after the step and no earlier fetch
\* has changed.
C15_PreloadOnePlusN ==
    [][\A r \in PreloadResults :
          GenerateDone(r)
          => /\ Len(served') = 1 + Len(r.sentences)
             /\ \A i \in DOMAIN served' :
                    served'[i].key = CacheKey(voice, (<<r.english>> \o r.sentences)[i])
             /\ \A p \in DOMAIN promises' :
                    IF p \in DOMAIN promises
                    THEN promises'[p] = promises[p]
                    ELSE promises'[p].st = "synth"]_vars

\* --------------------------------------------------------------- C16 ----
\* C16: when a fetch that no play request awaits (a preload fetch) fails, no
\* alert is raised, activeAudioId and loadingAudioId keep their values, the
\* cache is unchanged and every other fetch is left as it was, free to
\* complete; and in every step an alert about playback names a play request
\* the user made that was waiting before the step and is over after it.
C16_PreloadFailureSwallowed ==
    [][/\ \A p \in DOMAIN promises :
              (FetchFail(p) /\ Awaiting(p) = <<>>)
              => /\ alerts' = <<>>
                 /\ activeAudioId' = activeAudioId
                 /\ loadingAudioId' = loadingAudioId
                 /\ audioCache' = audioCache
                 /\ DOMAIN promises' = DOMAIN promises
                 /\ \A q \in DOMAIN promises \ {p} : promises'[q] = promises[q]
       /\ \A i \in DOMAIN alerts' :
              alerts'[i].kind = "play"
              => /\ Len(plays') < Len(plays)
                 /\ \E j \in DOMAIN plays : plays[j].id = alerts'[i].id]_vars

\* After a single generation and no play request: an earlier preload fetch has
\* failed, a later one has completed and is cached, and nothing was reported.
C16_Witness ==
    /\ ops = 1
    /\ alerts = <<>>
    /\ activeAudioId = NoId
    /\ loadingAudioId = NoId
    /\ \E p, q \in DOMAIN promises :
           /\ p < q
           /\ promises[p].st = "fail"
           /\ promises[q].st = "ok"
           /\ promises[q].key \in DOMAIN audioCache
           /\ audioCache[promises[q].key] = q

\* --------------------------------------------------------------- C17 ----
\* C17: the step in which a fetch fails inserts nothing into the cache, leaves
\* the failed key out of the tracker, issues no synthesize call, starts no
\* source, and ends every play request that awaits the fetch with an alert of
\* its own; and a fetchAudioBuffer call for a key that has a failed fetch, is
\* not cached and is not in flight issues a new synthesize call.
C17_FailureNotCachedNotRetried ==
    [][/\ \A p \in DOMAIN promises :
              FetchFail(p)
              => /\ audioCache' = audioCache
                 /\ promises[p].key \notin DOMAIN pendingRequests'
                 /\ DOMAIN promises' = DOMAIN promises
                 /\ sources' = sources
                 /\ Len(alerts') = Len(Awaiting(p))
                 /\ \A i \in DOMAIN plays :
                        plays[i].wait = p
                        => /\ \A j \in DOMAIN plays' : plays'[j].wait # p
                           /\ \E j \in DOMAIN alerts' : alerts'[j].id = plays[i].id
       /\ \A k \in Keys :
              (/\ FetchCalled(k)
               /\ k \notin DOMAIN audioCache
               /\ k \notin DOMAIN pendingRequests
               /\ \E p \in DOMAIN promises :
                      promises[p].key = k /\ promises[p].st = "fail")
              => NetworkCall(k)]_vars

\* A play request has just issued a new synthesize call for a key whose
\* earlier fetch failed.
C17_Witness ==
    /\ Len(served) = 1
    /\ served[1].via = "network"
    /\ loadingAudioId # NoId
    /\ \E p \in DOMAIN promises :
           /\ promises[p].key = served[1].key
           /\ promises[p].st = "fail"
           /\ ~promises[p].abandoned

\* --------------------------------------------------------------- C18 ----
\* C18: when the fetch behind play requests fails, then after the step in
\* which those requests finish loadingAudioId is none, activeAudioId is none,
\* no source is sounding, and an alert has been raised for each request.
C18_FailedPlayLeavesIdle ==
    [][\A p \in DOMAIN promises :
          (FetchFail(p) /\ Awaiting(p) # <<>>)
          => /\ loadingAudioId' = NoId
             /\ activeAudioId' = NoId
             /\ \A n \in DOMAIN sources' : sources'[n].st # "playing"
             /\ \A i \in DOMAIN plays :
                    plays[i].wait = p
                    => \E j \in DOMAIN alerts' :
                           alerts'[j] = [kind |-> "play", id |-> plays[i].id]]_vars

\* --------------------------------------------------------------- C19 ----
\* C19: a change of speed while an item is active sets the playback rate of
\* the tracked source to the new speed and changes nothing else about it (it
\* is the same node, sounding as before, and no node is added or removed);
\* activeAudioId, loadingAudioId, sourceNodeRef, the cache, the tracker, the
\* fetches and the suspended play requests are unchanged and fetchAudioBuffer
\* is not called.
C19_SpeedChangeKeepsPlayback ==
    [][\A s \in Speeds :
          (SetSpeed(s) /\ activeAudioId # NoId)
          => /\ sourceNodeRef # 0
             /\ sources' = [sources EXCEPT ![sourceNodeRef].rate = s]
             /\ sources'[sourceNodeRef].st = sources[sourceNodeRef].st
             /\ activeAudioId' = activeAudioId
             /\ loadingAudioId' = loadingAudioId
             /\ sourceNodeRef' = sourceNodeRef
             /\ audioCache' = audioCache
             /\ pendingRequests' = pendingRequests
             /\ promises' = promises
             /\ plays' = plays
             /\ served' = <<>>]_vars

\* The active item is sounding at a rate other than the one it was started at.
C19_Witness ==
    /\ activeAudioId # NoId
    /\ sourceNodeRef # 0
    /\ sources[sourceNodeRef].st = "playing"
    /\ sources[sourceNodeRef].id = activeAudioId
    /\ sources[sourceNodeRef].rate = speed
    /\ speed # DefaultSpeed
    /\ Len(sources) = 1
    /\ Len(promises) = 1
    /\ ops = 3

\* --------------------------------------------------------------- C20 ----
\* C20: a practice session opened while the view is closed starts with
\* recording false, analyzing false and no feedback, whatever an earlier
\* session left behind.
C20_NewSessionStartsFresh ==
    [][\A t \in PracticeTargets :
          (openPractice(t) /\ ~practiceModalOpen)
          => /\ isRecording' = FALSE
             /\ isAnalyzing' = FALSE
             /\ feedback' = NoFeedback]_vars

\* --------------------------------------------------------------- C21 ----
\* C21: every source that is sounding plays at the configured speed.
C21_SoundingAtConfiguredSpeed == \A n \in Sounding : sources[n].rate = speed

\* --------------------------------------------------------------- C22 ----
\* C22: while the tracked source is sounding, activeAudioId is the id it was
\* started for.
C22_TrackedSoundingIsActive ==
    (sourceNodeRef # 0 /\ sources[sourceNodeRef].st = "playing")
    => activeAudioId = sources[sourceNodeRef].id

\* --------------------------------------------------------------- C23 ----
\* C23: a recorder whose analysis is over, with an evaluation or with an
\* error, holds no microphone stream, and every recorder that has been stopped
\* eventually holds none.
C23_StoppedRecordingReleasesMic ==
    /\ [](\A r \in DOMAIN recorders :
              recorders[r].st = "inactive" => ~recorders[r].mic)
    /\ \A r \in 1..MaxOps :
           (r \in DOMAIN recorders /\ recorders[r].st = "stopping")
           ~> (r \in DOMAIN recorders /\ ~recorders[r].mic)

\* Back in idle after an analysis that failed: the recording's stream has
\* been released.
C23_Witness ==
    /\ ~isRecording
    /\ ~isAnalyzing
    /\ feedback = AnalysisError
    /\ mediaRecorderRef # 0
    /\ recorders[mediaRecorderRef].st = "inactive"
    /\ ~recorders[mediaRecorderRef].mic
    /\ MicHeld = {}

\* --------------------------------------------------------------- C24 ----
\* C24: at most one microphone stream is held at any time.
C24_MicExclusive == Cardinality(MicHeld) <= 1

\* --------------------------------------------------------------- C25 ----
\* C25: a change of voice calls fetchAudioBuffer for the full text and for
\* every sentence of the answer under the new voice and does nothing else:
\* activeAudioId, loadingAudioId, the sources and the suspended play requests
\* are unchanged, every cache entry is kept, and every fetch in flight is left
\* as it was; and a fetch that completes is cached under the key it was
\* issued for.
C25_VoiceChangePreloadsOnly ==
    [][/\ \A v \in Voices :
              SetVoice(v)
              => /\ Len(served') = 1 + Len(result[1].sentences)
                 /\ \A i \in DOMAIN served' :
                        served'[i].key = CacheKey(v, (<<result[1].english>>
                                                      \o result[1].sentences)[i])
                 /\ activeAudioId' = activeAudioId
                 /\ loadingAudioId' = loadingAudioId
                 /\ sourceNodeRef' = sourceNodeRef
                 /\ sources' = sources
                 /\ plays' = plays
                 /\ \A k \in DOMAIN audioCache :
                        k \in DOMAIN audioCache' /\ audioCache'[k] = audioCache[k]
                 /\ \A p \in DOMAIN promises : promises'[p] = promises[p]
       /\ \A p \in DOMAIN promises :
              DecodeDone(p)
              => /\ DOMAIN audioCache' = DOMAIN audioCache \cup {promises[p].key}
                 /\ audioCache'[promises[p].key] = p
                 /\ promises'[p].key = promises[p].key]_vars

\* --------------------------------------------------------------- C26 ----
\* C26: while a generation request is outstanding, no item is active and no
\* source is sounding.
C26_SilentWhileGenerating ==
    isGenerating => (activeAudioId = NoId /\ Sounding = {})

\* --------------------------------------------------------------- C27 ----
\* C27: the recording flag and the analyzing flag are never both true.
C27_NotRecordingAndAnalyzing == ~(isRecording /\ isAnalyzing)

====
